---------------------------- MODULE Spec2Model ----------------------------
(***************************************************************************)
(* Model of the model-routing and response-generation core of the chat    *)
(* platform: app/services/model_service.py (content classifier, model     *)
(* registry, adapters, get_model_response) and the send handlers of        *)
(* app/blueprints/chat/routes.py with the session store of                 *)
(* app/models/user.py.                                                     *)
(*                                                                         *)
(* Text is modelled as a sequence of one-character strings, so that        *)
(* lower(), strip() and the substring test `kw in text` are computed the   *)
(* way Python computes them.  Model names are only ever compared for       *)
(* equality or looked up in a dict, so they are plain strings.             *)
(***************************************************************************)
EXTENDS Integers, Sequences, FiniteSets, TLC

VARIABLES
    (* process-wide state *)
    DEFAULT_MODEL,     \* app.config['DEFAULT_MODEL'] (config.py:57)
    loaded,            \* adapter instance -> _is_loaded
    (* a direct call of the classifier / router (as the unit tests make) *)
    cpc,               \* "input" | "detected" | "selected"
    prompt,            \* text handed to the classifier
    requested_model,   \* requested_model argument of select_model_for_content
    app_ctx,           \* TRUE iff the call runs inside a Flask application context
    content_type,      \* value returned by detect_content_type
    selected,          \* value returned by select_model_for_content
    (* an adapter.generate(...) call and the generator object it returns *)
    agen,
    (* a get_model_response(...) call and the generator object it returns *)
    gmr,
    (* the list a get_available_models() call returned, <<>> before the call *)
    models_info,
    (* the chat blueprint: clock, users, session store, last request/response *)
    now,
    users,
    sessions,
    messages,
    next_id,
    req,
    resp,
    (* requests between two of their commits: slot -> the request's record *)
    inflight,
    (* the payments: transactions by order id, last webhook call *)
    transactions,
    hook

classVars   == <<cpc, prompt, requested_model, app_ctx, content_type, selected>>
adapterVars == <<agen, gmr, models_info>>
routeVars   == <<now, users, sessions, messages, next_id, req, resp>>
payVars     == <<transactions, hook>>
vars == <<DEFAULT_MODEL, loaded, cpc, prompt, requested_model, app_ctx,
          content_type, selected, agen, gmr, models_info,
          now, users, sessions, messages, next_id, req, resp,
          inflight, transactions, hook>>

-----------------------------------------------------------------------------
(* Bounds of the model *)

\* number of vocabulary fragments a classifier input is concatenated from
MaxFrags == 2

\* Python's None
None == "None"

-----------------------------------------------------------------------------
(* Text helpers: str.lower(), `sub in text`, str.strip() *)

UpperAlpha == <<"A","B","C","D","E","F","G","H","I","J","K","L","M",
                "N","O","P","Q","R","S","T","U","V","W","X","Y","Z">>
LowerAlpha == <<"a","b","c","d","e","f","g","h","i","j","k","l","m",
                "n","o","p","q","r","s","t","u","v","w","x","y","z">>

LowerChar(c) ==
    IF \E i \in 1..26 : UpperAlpha[i] = c
    THEN LowerAlpha[CHOOSE i \in 1..26 : UpperAlpha[i] = c]
    ELSE c

\* str.lower()
Lower(s) == [i \in 1..Len(s) |-> LowerChar(s[i])]

\* Python `k in s` for strings: k occurs as a contiguous substring of s
Contains(s, k) ==
    \E i \in 1..(Len(s) - Len(k) + 1) : SubSeq(s, i, i + Len(k) - 1) = k

\* any(keyword in text for keyword in keywords)
AnyKeyword(text, keywords) == \E k \in keywords : Contains(text, k)

Whitespace == {" ", "\t", "\n"}

\* a strip() that leaves the text as it is
strip_nothing(s) == s

\* str.strip(): drop leading and trailing whitespace
Strip(s) ==
    LET idx == {i \in 1..Len(s) : s[i] \notin Whitespace}
    IN  IF idx = {} THEN <<>>
        ELSE LET lo == CHOOSE i \in idx : \A j \in idx : i <= j
                 hi == CHOOSE i \in idx : \A j \in idx : j <= i
             IN  SubSeq(s, lo, hi)

RECURSIVE Flatten(_)
\* ''.join(parts)
Flatten(parts) ==
    IF parts = <<>> THEN <<>> ELSE Head(parts) \o Flatten(Tail(parts))

-----------------------------------------------------------------------------
(* Content classifier: detect_content_type *)

coding_keywords ==
    { <<"c", "o", "d", "e">>,
      <<"f", "u", "n", "c", "t", "i", "o", "n">>,
      <<"c", "l", "a", "s", "s">>,
      <<"p", "r", "o", "g", "r", "a", "m", "m", "i", "n", "g">>,
      <<"d", "e", "b", "u", "g">>,
      <<"e", "r", "r", "o", "r">>,
      <<"p", "y", "t", "h", "o", "n">>,
      <<"j", "a", "v", "a", "s", "c", "r", "i", "p", "t">>,
      <<"j", "a", "v", "a">>,
      <<"c", "+", "+">>,
      <<"r", "u", "s", "t">>,
      <<"g", "o">>,
      <<"p", "h", "p">>,
      <<"h", "t", "m", "l">>,
      <<"c", "s", "s">>,
      <<"s", "q", "l">>,
      <<"a", "l", "g", "o", "r", "i", "t", "h", "m">>,
      <<"a", "p", "i">>,
      <<"b", "a", "c", "k", "e", "n", "d">>,
      <<"f", "r", "o", "n", "t", "e", "n", "d">>,
      <<"b", "u", "g">>,
      <<"s", "y", "n", "t", "a", "x">>,
      <<"c", "o", "m", "p", "i", "l", "e">>,
      <<"e", "x", "e", "c", "u", "t", "e">>,
      <<"s", "c", "r", "i", "p", "t">>,
      <<"p", "a", "c", "k", "a", "g", "e">>,
      <<"i", "m", "p", "o", "r", "t">>,
      <<"e", "x", "p", "o", "r", "t">>,
      <<"v", "a", "r", "i", "a", "b", "l", "e">>,
      <<"l", "o", "o", "p">>,
      <<"c", "o", "n", "d", "i", "t", "i", "o", "n", "a", "l">>,
      <<"r", "e", "f", "a", "c", "t", "o", "r">>,
      <<"o", "p", "t", "i", "m", "i", "z", "e", " ", "c", "o", "d", "e">>,
      <<"w", "r", "i", "t", "e", " ", "c", "o", "d", "e">>,
      <<"f", "i", "x", " ", "c", "o", "d", "e">>,
      <<"r", "e", "v", "i", "e", "w", " ", "c", "o", "d", "e">>,
      <<"i", "m", "p", "l", "e", "m", "e", "n", "t", "a", "t", "i", "o", "n">>,
      <<"c", "o", "d", "i", "n", "g">>,
      <<"d", "e", "v", "e", "l", "o", "p", "e", "r">>,
      <<"p", "r", "o", "g", "r", "a", "m">> }

file_keywords ==
    { <<"f", "i", "l", "e">>,
      <<"d", "o", "c", "u", "m", "e", "n", "t">>,
      <<"u", "p", "l", "o", "a", "d">>,
      <<"l", "a", "r", "g", "e", " ", "f", "i", "l", "e">>,
      <<"c", "s", "v">>,
      <<"j", "s", "o", "n">>,
      <<"x", "m", "l">>,
      <<"y", "a", "m", "l">> }

pdf_keywords ==
    { <<"p", "d", "f">>,
      <<"d", "o", "c", "u", "m", "e", "n", "t", " ", "a", "n", "a", "l", "y", "s", "i", "s">>,
      <<"e", "x", "t", "r", "a", "c", "t", " ", "t", "e", "x", "t">>,
      <<"r", "e", "a", "d", " ", "p", "d", "f">> }

image_keywords ==
    { <<"i", "m", "a", "g", "e">>,
      <<"p", "h", "o", "t", "o">>,
      <<"p", "i", "c", "t", "u", "r", "e">>,
      <<"j", "p", "e", "g">>,
      <<"p", "n", "g">>,
      <<"a", "n", "a", "l", "y", "z", "e", " ", "i", "m", "a", "g", "e">>,
      <<"v", "i", "s", "i", "o", "n">> }

video_keywords ==
    { <<"v", "i", "d", "e", "o">>,
      <<"m", "p", "4">>,
      <<"a", "v", "i">>,
      <<"a", "n", "a", "l", "y", "z", "e", " ", "v", "i", "d", "e", "o">>,
      <<"v", "i", "d", "e", "o", " ", "p", "r", "o", "c", "e", "s", "s", "i", "n", "g">> }


\* detect_content_type with the keywords matched against the prompt as typed
\* instead of against prompt.lower()
detect_content_type_cased(p) ==
    IF AnyKeyword(p, coding_keywords) THEN "code"
    ELSE IF AnyKeyword(p, pdf_keywords) THEN "pdf"
    ELSE None

\* detect_content_type(prompt).  The function body ends after the PDF check
\* (the image / video / file / code-block checks sit after the `return` of
\* generate_unique_response_id and are never executed), so a prompt that
\* matches neither the coding nor the PDF keywords falls off the end of the
\* function and the call evaluates to None.
detect_content_type(p) ==
    LET prompt_lower == Lower(p)
    IN  IF AnyKeyword(prompt_lower, coding_keywords) THEN "code"
        ELSE IF AnyKeyword(prompt_lower, pdf_keywords) THEN "pdf"
        ELSE None

-----------------------------------------------------------------------------
(* Model registry *)

\* the four adapter instances created at import time
Adapters == {"mistral_model", "codellama_model", "llama3_model", "hermes_model"}

\* a registry in which the alias 'llama' is bound to another instance than
\* its primary name 'llama3'
MODELS_llama_rebound ==
    [k \in {"mistral", "codellama", "llama3", "hermes",
            "llama", "gpt4all", "deepseek", "vicuna"} |->
        CASE k \in {"mistral", "gpt4all", "llama"} -> "mistral_model"
          [] k \in {"codellama", "deepseek"}       -> "codellama_model"
          [] k \in {"llama3"}                      -> "llama3_model"
          [] k \in {"hermes", "vicuna"}            -> "hermes_model"]

\* MODELS: registry key -> adapter instance (aliases share the instance)
MODELS ==
    [k \in {"mistral", "codellama", "llama3", "hermes",
            "llama", "gpt4all", "deepseek", "vicuna"} |->
        CASE k \in {"mistral", "gpt4all"}    -> "mistral_model"
          [] k \in {"codellama", "deepseek"} -> "codellama_model"
          [] k \in {"llama3", "llama"}       -> "llama3_model"
          [] k \in {"hermes", "vicuna"}      -> "hermes_model"]

\* Python truthiness of an optional string argument
Truthy(x) == x # None /\ x # ""

\* select_model_for_content without the early return for a requested model
select_model_by_content_only(p, requested, ctx) ==
    LET ct == detect_content_type(p)
    IN  IF ct = "code" THEN "codellama"
        ELSE IF ct \in {"pdf", "file"} THEN "llama3"
        ELSE IF ct \in {"image", "video"} THEN "hermes"
        ELSE IF ctx
             THEN (IF DEFAULT_MODEL \in DOMAIN MODELS
                   THEN DEFAULT_MODEL ELSE "mistral")
             ELSE "mistral"

\* select_model_for_content(prompt, requested_model); ctx is TRUE iff
\* current_app is bound (otherwise current_app.config raises RuntimeError)
select_model_for_content(p, requested, ctx) ==
    IF Truthy(requested) /\ requested \in DOMAIN MODELS THEN requested
    ELSE LET ct == detect_content_type(p)
         IN  IF ct = "code" THEN "codellama"
             ELSE IF ct \in {"pdf", "file"} THEN "llama3"
             ELSE IF ct \in {"image", "video"} THEN "hermes"
             ELSE IF ctx
                  THEN (IF DEFAULT_MODEL \in DOMAIN MODELS
                        THEN DEFAULT_MODEL ELSE "mistral")
                  ELSE "mistral"

-----------------------------------------------------------------------------
(* Inputs *)

\* fragments the classifier inputs are built from
Vocab ==
    { <<"D", "e", "b", "u", "g", " ">>,
      <<"G", "O">>,
      <<"P", "D", "F", " ">>,
      <<"I", "m", "a", "g", "e", " ">>,
      <<"v", "i", "d", "e", "o", " ">>,
      <<"c", "s", "v", " ">>,
      <<"h", "e", "l", "l", "o", " ">>,
      <<"d", "e", "f", " ">> }

\* every concatenation of at most MaxFrags fragments
Prompts ==
    { Flatten(ws) : ws \in UNION { [1..n -> Vocab] : n \in 0..MaxFrags } }

\* model names a caller may pass
ModelNames ==
    (DOMAIN MODELS) \cup {None, "", "auto", "nonexistent-model", "code"}

\* values the DEFAULT_MODEL environment variable is given
ConfigDefaults == {"gpt4all", "llama3", "no-such-default"}

-----------------------------------------------------------------------------
(* Model adapters (MistralAdapter, CodeLlamaAdapter, Llama3Adapter,        *)
(* HermesAdapter).  The four generate methods have the same control flow; *)
(* they differ in the sampling parameters handed to the backend and in     *)
(* the fallback text.                                                      *)

\* the backquote character (a TLA+ string cannot hold it)
Backtick == "BACKQUOTE"

\* mistral._mock_response
MistralFallback ==
    <<"I", " ", "c", "a", "n", " ", "h", "e", "l", "p", " ", "w", "i", "t",
      "h", " ", "g", "e", "n", "e", "r", "a", "l", " ", "c", "o", "n", "v",
      "e", "r", "s", "a", "t", "i", "o", "n", ",", " ", "Q", "&", "A", ",",
      " ", "a", "n", "d", " ", "v", "a", "r", "i", "o", "u", "s", " ", "t",
      "a", "s", "k", "s", ".", " ", "(", "M", "i", "s", "t", "r", "a", "l",
      " ", "m", "o", "d", "e", "l", " ", "n", "o", "t", " ", "l", "o", "a",
      "d", "e", "d", " ", "-", " ", "u", "s", "i", "n", "g", " ", "f", "a",
      "l", "l", "b", "a", "c", "k", ")">>

\* codellama._mock_response
CodeLlamaFallback ==
    <<"I", " ", "c", "a", "n", " ", "h", "e", "l", "p", " ", "w", "i", "t",
      "h", " ", "c", "o", "d", "e", " ", "g", "e", "n", "e", "r", "a", "t",
      "i", "o", "n", ",", " ", "d", "e", "b", "u", "g", "g", "i", "n", "g",
      ",", " ", "a", "n", "d", " ", "e", "x", "p", "l", "a", "n", "a", "t",
      "i", "o", "n", ".", " ", "(", "C", "o", "d", "e", "L", "l", "a", "m",
      "a", " ", "m", "o", "d", "e", "l", " ", "n", "o", "t", " ", "l", "o",
      "a", "d", "e", "d", " ", "-", " ", "u", "s", "i", "n", "g", " ", "f",
      "a", "l", "l", "b", "a", "c", "k", ")", "\n", "\n", Backtick, Backtick, Backtick, "p",
      "y", "t", "h", "o", "n", "\n", "#", " ", "E", "x", "a", "m", "p", "l",
      "e", " ", "c", "o", "d", "e", "\n", "d", "e", "f", " ", "e", "x", "a",
      "m", "p", "l", "e", "(", ")", ":", "\n", " ", " ", " ", " ", "p", "a",
      "s", "s", "\n", Backtick, Backtick, Backtick>>

\* llama3._mock_response
Llama3Fallback ==
    <<"I", " ", "c", "a", "n", " ", "h", "e", "l", "p", " ", "w", "i", "t",
      "h", " ", "d", "o", "c", "u", "m", "e", "n", "t", " ", "p", "r", "o",
      "c", "e", "s", "s", "i", "n", "g", ",", " ", "a", "n", "a", "l", "y",
      "s", "i", "s", ",", " ", "a", "n", "d", " ", "g", "e", "n", "e", "r",
      "a", "l", " ", "t", "a", "s", "k", "s", ".", " ", "(", "L", "l", "a",
      "m", "a", "-", "3", " ", "m", "o", "d", "e", "l", " ", "n", "o", "t",
      " ", "l", "o", "a", "d", "e", "d", " ", "-", " ", "u", "s", "i", "n",
      "g", " ", "f", "a", "l", "l", "b", "a", "c", "k", ")">>

\* hermes._mock_response
HermesFallback ==
    <<"I", " ", "c", "a", "n", " ", "h", "e", "l", "p", " ", "w", "i", "t",
      "h", " ", "c", "r", "e", "a", "t", "i", "v", "e", " ", "w", "r", "i",
      "t", "i", "n", "g", ",", " ", "b", "r", "a", "i", "n", "s", "t", "o",
      "r", "m", "i", "n", "g", ",", " ", "a", "n", "d", " ", "e", "n", "g",
      "a", "g", "i", "n", "g", " ", "c", "o", "n", "v", "e", "r", "s", "a",
      "t", "i", "o", "n", "s", ".", " ", "(", "O", "p", "e", "n", "H", "e",
      "r", "m", "e", "s", " ", "m", "o", "d", "e", "l", " ", "n", "o", "t",
      " ", "l", "o", "a", "d", "e", "d", " ", "-", " ", "u", "s", "i", "n",
      "g", " ", "f", "a", "l", "l", "b", "a", "c", "k", ")">>

\* adapter._mock_response(prompt): the text does not depend on the prompt
_mock_response(a) ==
    CASE a = "mistral_model"   -> MistralFallback
      [] a = "codellama_model" -> CodeLlamaFallback
      [] a = "llama3_model"    -> Llama3Fallback
      [] a = "hermes_model"    -> HermesFallback

\* adapter.is_loaded()
is_loaded(a) == loaded[a]

\* number of fragments a simulated backend stream produces at most
MaxBackend == 2

\* fragments a backend stream is made of: empty, a token, whitespace
BackendFragments == { <<>>, <<"H", "i">>, <<" ">> }

BackendStreams ==
    UNION { [1..n -> BackendFragments] : n \in 0..MaxBackend }

\* raw text of a blocking backend completion
BackendTexts == { <<>>, <<" ", "o", "k", " ">> }

NoValue == [kind |-> "none"]
StrValue(t) == [kind |-> "str", text |-> t]

\* the object streaming_generator() evaluates to: a generator that has not
\* been started and holds the backend's response iterator
streaming_generator(a, response) ==
    [kind |-> "generator", fn |-> "streaming_generator", adapter |-> a,
     pc |-> "created", response |-> response]

\* adapter.generate(prompt, user, stream).  The body of generate contains
\* `yield`, so generate is a generator function: the call runs none of the
\* body and evaluates to a generator object, whatever the value of stream.
generate(a, stream) ==
    [kind |-> "generator", fn |-> "generate", adapter |-> a, stream |-> stream,
     pc |-> "created", out |-> <<>>, retval |-> NoValue,
     raises |-> FALSE, response |-> <<>>]

\* next(g) on the generator object of generate(), first resumption: the body
\* runs to its first `yield` or to a `return`.  raises / response / text are
\* what the backend call self.model(...) does on this run.  A `return v`
\* inside a generator ends the iteration (StopIteration carries v); it hands
\* nothing to the code that iterates.
generate_start(g, raises, response, text) ==
    LET a == g.adapter
    IN  IF is_loaded(a)
        THEN IF raises
             THEN IF g.stream
                  THEN [g EXCEPT !.pc = "suspended", !.raises = TRUE,
                                 !.out = Append(@, _mock_response(a))]
                  ELSE [g EXCEPT !.pc = "done", !.raises = TRUE,
                                 !.retval = StrValue(_mock_response(a))]
             ELSE IF g.stream
                  THEN [g EXCEPT !.pc = "done", !.response = response,
                                 !.retval = streaming_generator(a, response)]
                  ELSE [g EXCEPT !.pc = "done",
                                 !.retval = StrValue(Strip(text))]
        ELSE IF g.stream
             THEN [g EXCEPT !.pc = "suspended",
                            !.out = Append(@, _mock_response(a))]
             ELSE [g EXCEPT !.pc = "done",
                            !.retval = StrValue(_mock_response(a))]

\* next(g) after the single `yield self._mock_response(prompt)`: the body
\* falls off the end of the function
generate_resume(g) == [g EXCEPT !.pc = "done"]

-----------------------------------------------------------------------------
(* Response orchestrator: get_model_response *)

\* substrings that mark a turn as mock / fallback output
mock_patterns ==
    { <<"[", "R", "e", "s", "p", "o", "n", "s", "e", " ", "g", "e", "n", "e", "r", "a", "t", "e", "d", " ", "b", "y">>,
      <<"m", "o", "c", "k", " ", "i", "m", "p", "l", "e", "m", "e", "n", "t", "a", "t", "i", "o", "n">>,
      <<"(", "M", "o", "d", "e", "l", " ", "n", "o", "t", " ", "l", "o", "a", "d", "e", "d">>,
      <<"u", "s", "i", "n", "g", " ", "f", "a", "l", "l", "b", "a", "c", "k", ")">>,
      <<"P", "r", "e", "v", "i", "o", "u", "s", " ", "c", "o", "n", "v", "e", "r", "s", "a", "t", "i", "o", "n", ":">>,
      <<"I", "n", "t", "e", "r", "e", "s", "t", "i", "n", "g", " ", "q", "u", "e", "s", "t", "i", "o", "n", "!", " ", "R", "e", "g", "a", "r", "d", "i", "n", "g">> }

UserLabel      == <<"U", "s", "e", "r", ":", " ">>
AssistantLabel == <<"A", "s", "s", "i", "s", "t", "a", "n", "t", ":", " ">>
AssistantCue   == <<"A", "s", "s", "i", "s", "t", "a", "n", "t", ":">>
Newline        == <<"\n">>

RECURSIVE Join(_, _)
\* sep.join(lines)
Join(sep, lines) ==
    IF lines = <<>> THEN <<>>
    ELSE IF Len(lines) = 1 THEN lines[1]
    ELSE lines[1] \o sep \o Join(sep, Tail(lines))

RECURSIVE conversation_context_unfiltered(_)
\* the loop over history without the test for mock output
conversation_context_unfiltered(history) ==
    IF history = <<>> THEN <<>>
    ELSE LET msg  == Head(history)
             line == IF msg.role = "user"
                     THEN UserLabel \o msg.content
                     ELSE AssistantLabel \o msg.content
         IN  (IF Strip(msg.content) # <<>> THEN <<line>> ELSE <<>>)
             \o conversation_context_unfiltered(Tail(history))

RECURSIVE conversation_context(_)
\* the loop over history: one line per turn that is neither blank nor
\* marked as mock output
conversation_context(history) ==
    IF history = <<>> THEN <<>>
    ELSE LET msg     == Head(history)
             is_mock == \E pattern \in mock_patterns :
                            Contains(msg.content, pattern)
             line    == IF msg.role = "user"
                        THEN UserLabel \o msg.content
                        ELSE AssistantLabel \o msg.content
         IN  (IF Strip(msg.content) # <<>> /\ ~is_mock THEN <<line>> ELSE <<>>)
             \o conversation_context(Tail(history))

\* full_prompt with the lines of the history joined latest turn first
full_prompt_latest_first(p, history) ==
    LET turn == UserLabel \o p \o Newline \o AssistantCue
        ctx  == conversation_context(history)
        rev  == [i \in 1..Len(ctx) |-> ctx[Len(ctx) + 1 - i]]
    IN  IF history # <<>> /\ ctx # <<>>
        THEN Join(Newline, rev) \o Newline \o turn
        ELSE turn

\* full_prompt; history is <<>> both for None and for an empty list
full_prompt(p, history) ==
    LET turn == UserLabel \o p \o Newline \o AssistantCue
        ctx  == conversation_context(history)
    IN  IF history # <<>> /\ ctx # <<>>
        THEN Join(Newline, ctx) \o Newline \o turn
        ELSE turn

\* the registry key get_model_response ends up using for model_name
final_model_name(p, model_name, ctx) ==
    LET auto == IF model_name = "auto"
                THEN select_model_for_content(p, None, ctx)
                ELSE model_name
    IN  IF auto \notin DOMAIN MODELS THEN "gpt4all" ELSE auto

\* get_model_response(prompt, model_name, user, history, stream).  The body
\* contains `yield` (in its except branch), so this too is a generator
\* function: the call evaluates to a generator object and runs no code.
get_model_response(p, model_name, history, stream, ctx) ==
    [kind |-> "generator", fn |-> "get_model_response",
     prompt |-> p, model_name |-> model_name, history |-> history,
     stream |-> stream, ctx |-> ctx,
     pc |-> "created", out |-> <<>>, retval |-> NoValue,
     full_prompt |-> <<>>, final_model |-> None]

\* next(g) on that generator object.  Streaming: `return model.generate(...)`
\* ends the iteration with no fragment.  Blocking: response is the generator
\* object of generate(), len(response) raises TypeError, and the handler
\* re-raises it as Exception("AI model error: ...").
get_model_response_start(g) ==
    LET name  == final_model_name(g.prompt, g.model_name, g.ctx)
        model == MODELS[name]
        fp    == full_prompt(g.prompt, g.history)
    IN  IF g.stream
        THEN [g EXCEPT !.pc = "done", !.full_prompt = fp, !.final_model = name,
                       !.retval = generate(model, TRUE)]
        ELSE [g EXCEPT !.pc = "raised", !.full_prompt = fp,
                       !.final_model = name]

\* number of turns in a history handed to get_model_response
MaxHistory == 2

\* turns a history is made of
HistoryTurns ==
    { [role |-> "user",      content |-> <<"h", "i">>],
      [role |-> "assistant", content |-> <<"o", "k">>],
      [role |-> "assistant", content |-> MistralFallback],
      [role |-> "user",      content |-> <<" ", " ">>] }

Histories == UNION { [1..n -> HistoryTurns] : n \in 0..MaxHistory }

\* model names of the calls that carry a history: the default of the chat
\* client and an alias picked in its model menu
HistoryModelNames == {"auto", "deepseek"}

\* prompts handed to get_model_response
ResponsePrompts ==
    { <<"H", "e", "l", "l", "o">>,
      <<"D", "e", "b", "u", "g", " ", "t", "h", "i", "s">>,
      <<"R", "e", "a", "d", " ", "P", "D", "F">> }

\* get_available_models with every entry reported as loaded
get_available_models_all_loaded ==
    << [id |-> "auto",     loaded |-> TRUE],
       [id |-> "deepseek", loaded |-> TRUE],
       [id |-> "gpt4all",  loaded |-> TRUE],
       [id |-> "llama",    loaded |-> TRUE],
       [id |-> "vicuna",   loaded |-> TRUE] >>

\* get_available_models(): the id and the 'loaded' flag of each entry of
\* models_info, in the order of the list (name, description and use_case
\* are fixed display texts)
get_available_models ==
    << [id |-> "auto",     loaded |-> TRUE],
       [id |-> "deepseek", loaded |-> is_loaded(MODELS["deepseek"])],
       [id |-> "gpt4all",  loaded |-> is_loaded(MODELS["gpt4all"])],
       [id |-> "llama",    loaded |-> is_loaded(MODELS["llama"])],
       [id |-> "vicuna",   loaded |-> is_loaded(MODELS["vicuna"])] >>

-----------------------------------------------------------------------------
(* Users and the session store (app/models/user.py) *)

UserIds == {1, 2, 3}

\* the clock advances in steps of half a day; timedelta(days=1) is 2 steps
Day == 2

\* last instant of the clock
MaxTime == 3

\* number of messages the store holds at most
MaxMessages == 1

\* number of sessions the session routes let the store grow to
MaxSessions == 1

\* number of messages a conversation persists at most
MaxSends == 2

\* the accounts: a free user, a premium user whose subscription ends at
\* instant 2, and an administrator
InitUsers ==
    [u \in UserIds |->
        CASE u = 1 -> [role |-> "user",  tier |-> "free",
                       has_expiry |-> FALSE, tier_expires_at |-> 0]
          [] u = 2 -> [role |-> "user",  tier |-> "premium",
                       has_expiry |-> TRUE,  tier_expires_at |-> 2]
          [] u = 3 -> [role |-> "admin", tier |-> "free",
                       has_expiry |-> FALSE, tier_expires_at |-> 0]]

\* User.is_admin
is_admin(user) == user.role = "admin"

\* User.is_premium at instant t
is_premium(user, t) ==
    IF user.tier = "premium" /\ user.has_expiry
    THEN t < user.tier_expires_at
    ELSE user.tier = "premium" /\ ~user.has_expiry

free_features == {"chat", "general", "qa", "basic"}

\* User.can_use_feature(feature) at instant t
can_use_feature(user, feature, t) ==
    IF is_premium(user, t) \/ is_admin(user) THEN TRUE
    ELSE feature \in free_features

\* RATE_LIMIT_FREE_TIER, RATE_LIMIT_PREMIUM_TIER, RATE_LIMIT_ADMIN_TIER of the
\* configuration.  Each is read from the environment (defaults 10, 100 and
\* 1000); the deployment modelled sets them to 1, 2 and 3 messages per hour.
RATE_LIMIT_FREE_TIER == 1
RATE_LIMIT_PREMIUM_TIER == 2
RATE_LIMIT_ADMIN_TIER == 3

\* User.get_rate_limit at instant t
get_rate_limit(user, t) ==
    IF is_admin(user) THEN RATE_LIMIT_ADMIN_TIER
    ELSE IF is_premium(user, t) THEN RATE_LIMIT_PREMIUM_TIER
    ELSE RATE_LIMIT_FREE_TIER

\* the count check_rate_limit takes: the user's role='user' messages of the
\* store ms created within the last hour.  A step of the clock is longer
\* than an hour, so these are the messages created at instant t.
message_count(ms, u, t) ==
    Cardinality({ i \in 1..Len(ms) :
                    /\ ms[i].user_id = u
                    /\ ms[i].role = "user"
                    /\ ms[i].created_at >= t })

\* check_rate_limit(user): every branch returns (True, None)
check_rate_limit(user) == TRUE

\* ConversationSession.is_expired at instant t
is_expired(s, t) == t - s.created_at > Day

\* keyword parameters ConversationSession.get_context_messages declares
get_context_messages_params == {"limit"}

\* a Python call with keyword arguments kwargs binds iff the callee declares
\* every one of them; otherwise the call raises TypeError
CallBinds(params, kwargs) == kwargs \subseteq params

-----------------------------------------------------------------------------
(* Chat blueprint (app/blueprints/chat/routes.py) *)

\* a purge that deletes the old sessions of every user
cleanup_all_old_sessions(ss, user_id, t) ==
    { s \in ss : ~(s.created_at < t - Day) }

\* cleanup_old_sessions(user_id): bulk delete of the user's sessions created
\* before the cutoff.  Query.delete() issues one DELETE statement; the
\* messages of the deleted sessions are not touched.
cleanup_old_sessions(ss, user_id, t) ==
    { s \in ss : ~(s.user_id = user_id /\ s.created_at < t - Day) }

\* get_or_create_session(user_id) over the store ss at instant t, nid being
\* the next primary key: the outcomes of the call.  After the purge,
\* .order_by(updated_at.desc()).first() picks a most recently updated active
\* session of the user (any one of them on a tie); it is returned unless it
\* is expired, otherwise, and when there is none, a session is created.
get_or_create_session(ss, user_id, t, nid) ==
    LET kept        == cleanup_old_sessions(ss, user_id, t)
        active      == { s \in kept : s.user_id = user_id /\ s.is_active }
        first       == { s \in active :
                           \A o \in active : o.updated_at <= s.updated_at }
        new_session == [id |-> nid, user_id |-> user_id, created_at |-> t,
                        updated_at |-> t, is_active |-> TRUE]
    IN  { [sessions |-> kept, session |-> s, next_id |-> nid] :
              s \in { f \in first : ~is_expired(f, t) } }
        \cup
        (IF first = {} \/ \E f \in first : is_expired(f, t)
         THEN { [sessions |-> kept \cup {new_session},
                 session |-> new_session, next_id |-> nid + 1] }
         ELSE {})

premium_models == {"code", "deepseek", "document", "llama", "image"}

\* the primary key the messages table ms gives its next row: one more than
\* the largest key in use
next_message_id(ms) ==
    IF ms = <<>> THEN 1
    ELSE 1 + CHOOSE m \in { ms[i].id : i \in 1..Len(ms) } :
                 \A i \in 1..Len(ms) : ms[i].id <= m

\* request bodies
RouteMessages ==
    { <<>>,
      <<" ", " ">>,
      <<" ", "H", "e", "l", "l", "o", " ">>,
      <<"D", "e", "b", "u", "g", " ", "t", "h", "i", "s">> }

RouteModels == {"auto", "deepseek", "codellama", "llama", "nonexistent-model"}

NoRequest == [route |-> "none"]
\* an HTTP response: status code, what its body is, the upgrade_required
\* flag, the session_id and model fields of the JSON body (0 / None when the
\* body has none) and, for an event stream, the kinds of the events emitted
Response(status, kind, upgrade) ==
    [status |-> status, kind |-> kind, upgrade_required |-> upgrade,
     session_id |-> 0, model |-> None, events |-> <<>>]

NoResponse == Response(0, "none", FALSE)

\* the request as the handler sees it, with the caller's standing at the
\* instant of the request
Request(route, u, raw, model_name) ==
    [route |-> route, user |-> u, message |-> raw, model |-> model_name,
     at |-> now,
     privileged |-> is_premium(users[u], now) \/ is_admin(users[u])]

\* What the handlers do once the user turn is persisted in session sid
\* (ss, ms: the store after get_or_create_session and after the user turn).
\*   conv_session.get_context_messages(limit=None, max_tokens=1500) passes a
\*   keyword the method does not declare: the call raises TypeError outside
\*   any try block and the request ends as an unhandled server error.
\*   Were the call to bind: send_message would store the generator object
\*   returned by get_model_response as message content, the commit would
\*   fail and `except Exception` would answer 500; stream_message would
\*   iterate get_model_response(stream=True), which yields no fragment,
\*   persist an assistant turn with empty content, touch the session and
\*   emit the completion event.
after_user_turn(route, u, model_name, sid, ss, ms) ==
    IF ~CallBinds(get_context_messages_params, {"limit", "max_tokens"})
    THEN /\ sessions' = ss
         /\ messages' = ms
         /\ resp' = Response(500, "unhandled", FALSE)
    ELSE IF route = "send"
    THEN /\ sessions' = ss
         /\ messages' = ms
         /\ resp' = Response(500, "error", FALSE)
    ELSE /\ sessions' = { IF s.id = sid THEN [s EXCEPT !.updated_at = now]
                          ELSE s : s \in ss }
         /\ messages' = Append(ms,
                [id |-> next_message_id(ms), user_id |-> u, session_id |-> sid,
                 role |-> "assistant", content |-> <<>>,
                 model |-> model_name, created_at |-> now])
         /\ resp' = [Response(200, "stream", FALSE) EXCEPT
                         !.session_id = sid,
                         !.events = <<"processing", "done">>]

\* Body shared by send_message (route = "send") and stream_message
\* (route = "stream"); the two handlers run the same statements:
\*   1. rate limit, 2. strip and validate the message, 3. premium gate on
\*   the requested name, 4. get_or_create_session, 5. persist the user turn,
\*   6. fetch the context and generate (after_user_turn).
chat_request(route, u, raw, model_name) ==
    LET user         == users[u]
        user_message == Strip(raw)
        user_turn(sid) ==
            [id |-> next_message_id(messages), user_id |-> u, session_id |-> sid,
             role |-> "user", content |-> user_message, model |-> model_name,
             created_at |-> now]
    IN  /\ req' = Request(route, u, raw, model_name)
        /\ IF ~check_rate_limit(user)
           THEN /\ resp' = Response(429, "rate_limit", FALSE)
                /\ UNCHANGED <<sessions, messages, next_id>>
           ELSE IF user_message = <<>>
           THEN /\ resp' = Response(400, "validation", FALSE)
                /\ UNCHANGED <<sessions, messages, next_id>>
           ELSE IF model_name \in premium_models
                   /\ ~can_use_feature(user, model_name, now)
           THEN /\ resp' = Response(403, "upgrade", TRUE)
                /\ UNCHANGED <<sessions, messages, next_id>>
           ELSE \E got \in get_or_create_session(sessions, u, now, next_id) :
                    /\ next_id' = got.next_id
                    /\ after_user_turn(route, u, model_name,
                                       got.session.id, got.sessions,
                                       Append(messages,
                                              user_turn(got.session.id)))

\* POST /chat/send
send_message ==
    /\ Len(messages) < MaxMessages
    /\ \E u \in UserIds, raw \in RouteMessages, model_name \in RouteModels :
           chat_request("send", u, raw, model_name)
    /\ UNCHANGED <<DEFAULT_MODEL, loaded, classVars, adapterVars, now, users,
                   inflight, payVars>>

\* POST /chat/stream
stream_message ==
    /\ Len(messages) < MaxMessages
    /\ \E u \in UserIds, raw \in RouteMessages, model_name \in RouteModels :
           chat_request("stream", u, raw, model_name)
    /\ UNCHANGED <<DEFAULT_MODEL, loaded, classVars, adapterVars, now, users,
                   inflight, payVars>>

\* request bodies of a conversation: no message, a blank message and a
\* greeting, sent with the model the client sends by default
SessionMessages ==
    { <<>>,
      <<" ", " ">>,
      <<" ", "H", "e", "l", "l", "o", " ">> }

\* the accounts that converse
SessionUsers == {1, 2}

\* POST /chat/send in the course of a conversation; the request is handled
\* also when the store is full as long as it persists nothing
send_in_session ==
    /\ \E u \in SessionUsers, raw \in SessionMessages :
           /\ Len(messages) < MaxSends \/ Strip(raw) = <<>>
           /\ chat_request("send", u, raw, "auto")
    /\ UNCHANGED <<DEFAULT_MODEL, loaded, classVars, adapterVars, now, users,
                   inflight, payVars>>

\* POST /chat/stream in the course of a conversation
stream_in_session ==
    /\ \E u \in SessionUsers, raw \in SessionMessages :
           /\ Len(messages) < MaxSends \/ Strip(raw) = <<>>
           /\ chat_request("stream", u, raw, "auto")
    /\ UNCHANGED <<DEFAULT_MODEL, loaded, classVars, adapterVars, now, users,
                   inflight, payVars>>

\* POST /chat/new_session: a session is created without a purge and
\* without looking at the sessions the user has
create_new_session ==
    /\ Cardinality(sessions) < MaxSessions
    /\ \E u \in SessionUsers :
           /\ req' = Request("new_session", u, <<>>, None)
           /\ sessions' = sessions \cup
                  { [id |-> next_id, user_id |-> u, created_at |-> now,
                     updated_at |-> now, is_active |-> TRUE] }
           /\ next_id' = next_id + 1
           /\ resp' = [Response(200, "session", FALSE) EXCEPT
                           !.session_id = next_id]
    /\ UNCHANGED <<DEFAULT_MODEL, loaded, classVars, adapterVars, now, users,
                   messages, inflight, payVars>>

\* GET /chat/current_session: get_or_create_session for the caller
get_current_session ==
    /\ \E u \in SessionUsers :
           /\ req' = Request("current_session", u, <<>>, None)
           /\ \E got \in get_or_create_session(sessions, u, now, next_id) :
                  /\ Cardinality(got.sessions) <= MaxSessions
                  /\ sessions' = got.sessions
                  /\ next_id' = got.next_id
                  /\ resp' = [Response(200, "session", FALSE) EXCEPT
                                  !.session_id = got.session.id]
    /\ UNCHANGED <<DEFAULT_MODEL, loaded, classVars, adapterVars, now, users,
                   messages, inflight, payVars>>

\* session ids up to which explicit deletions are tried
MaxSessionId == 2

\* DELETE /chat/session/<session_id>/delete: 404 unless the session is the
\* caller's; otherwise the messages of the session and the session row are
\* deleted in one commit
delete_session ==
    /\ next_id <= MaxSessionId + 1
    /\ \E u \in SessionUsers, session_id \in 1..MaxSessionId :
           /\ req' = ("session_id" :> session_id)
                          @@ Request("delete_session", u, <<>>, None)
           /\ IF \E s \in sessions : s.id = session_id /\ s.user_id = u
              THEN /\ messages' = SelectSeq(messages,
                                       LAMBDA m : m.session_id # session_id)
                   /\ sessions' = { s \in sessions : s.id # session_id }
                   /\ resp' = Response(200, "deleted", FALSE)
              ELSE /\ resp' = Response(404, "not_found", FALSE)
                   /\ UNCHANGED <<sessions, messages>>
    /\ UNCHANGED <<DEFAULT_MODEL, loaded, classVars, adapterVars, now, users,
                   next_id, inflight, payVars>>

\* time passes (datetime.utcnow() grows between requests)
Tick ==
    /\ now < MaxTime
    /\ now' = now + 1
    /\ UNCHANGED <<DEFAULT_MODEL, loaded, classVars, adapterVars,
                   users, sessions, messages, next_id, req, resp,
                   inflight, payVars>>

-----------------------------------------------------------------------------
(* Direct calls of the classifier and the router *)

\* detect_content_type(prompt)
DetectContentType ==
    /\ cpc = "input"
    /\ content_type' = detect_content_type(prompt)
    /\ cpc' = "detected"
    /\ UNCHANGED <<DEFAULT_MODEL, loaded, prompt, requested_model, app_ctx,
                   selected, adapterVars, routeVars, inflight, payVars>>

\* select_model_for_content(prompt, requested_model)
SelectModelForContent ==
    /\ cpc = "input"
    /\ \E name \in ModelNames, ctx \in BOOLEAN :
           /\ requested_model' = name
           /\ app_ctx' = ctx
           /\ selected' = select_model_for_content(prompt, name, ctx)
    /\ cpc' = "selected"
    /\ UNCHANGED <<DEFAULT_MODEL, loaded, prompt, content_type,
                   adapterVars, routeVars, inflight, payVars>>

-----------------------------------------------------------------------------
(* Direct calls of an adapter and of get_model_response, and the iteration *)
(* of the generator objects they return                                    *)

NoCall == [pc |-> "none"]

\* g = adapter.generate(prompt, stream=...)
AdapterGenerate ==
    /\ agen.pc = "none" /\ gmr.pc = "none" /\ models_info = <<>>
    /\ \E a \in Adapters, stream \in BOOLEAN : agen' = generate(a, stream)
    /\ UNCHANGED <<DEFAULT_MODEL, loaded, classVars, gmr, models_info,
                   routeVars, inflight, payVars>>

\* first next(g) of the caller's iteration (list(g), for token in g)
AdapterStart ==
    /\ agen.pc = "created"
    /\ \E raises \in BOOLEAN, response \in BackendStreams,
          text \in BackendTexts :
           \* the backend is called only by a loaded adapter; a blocking
           \* call produces a text, a streaming call a fragment stream
           /\ ~is_loaded(agen.adapter) => ~raises
           /\ (~is_loaded(agen.adapter) \/ raises \/ ~agen.stream)
                  => response = <<>>
           /\ (~is_loaded(agen.adapter) \/ raises \/ agen.stream)
                  => text = <<>>
           /\ agen' = generate_start(agen, raises, response, text)
    /\ UNCHANGED <<DEFAULT_MODEL, loaded, classVars, gmr, models_info,
                   routeVars, inflight, payVars>>

\* the next(g) that follows a yielded fragment
AdapterResume ==
    /\ agen.pc = "suspended"
    /\ agen' = generate_resume(agen)
    /\ UNCHANGED <<DEFAULT_MODEL, loaded, classVars, gmr, models_info,
                   routeVars, inflight, payVars>>

\* r = get_model_response(prompt, model_name, user, history, stream)
GetModelResponse ==
    /\ agen.pc = "none" /\ gmr.pc = "none" /\ models_info = <<>>
    /\ \E p \in ResponsePrompts, name \in ModelNames \ {""},
          history \in Histories, stream \in BOOLEAN, ctx \in BOOLEAN :
           \* every name is tried without a history; the calls that carry a
           \* history name the model as the chat client does
           /\ history = <<>> \/ name \in HistoryModelNames
           /\ gmr' = get_model_response(p, name, history, stream, ctx)
    /\ UNCHANGED <<DEFAULT_MODEL, loaded, classVars, agen, models_info,
                   routeVars, inflight, payVars>>

\* first next(r) of an iteration of that object
GetModelResponseStart ==
    /\ gmr.pc = "created"
    /\ gmr' = get_model_response_start(gmr)
    /\ UNCHANGED <<DEFAULT_MODEL, loaded, classVars, agen, models_info,
                   routeVars, inflight, payVars>>

\* models = get_available_models()
GetAvailableModels ==
    /\ agen.pc = "none" /\ gmr.pc = "none"
    /\ models_info = <<>>
    /\ models_info' = get_available_models
    /\ UNCHANGED <<DEFAULT_MODEL, loaded, classVars, agen, gmr, routeVars, inflight, payVars>>

-----------------------------------------------------------------------------
(* Requests in flight.  A handler commits its user turn (routes.py:128,    *)
(* 209) and only then fetches the context and generates; between the two   *)
(* the commit is visible to every other request.  A request that got past  *)
(* the early returns is therefore two steps: begin_request, up to the      *)
(* commit of the user turn, and finish_request, from the context fetch on. *)

\* number of requests that are in flight at once
MaxInflight == 2

Slots == 1..MaxInflight

NoFlight == [pc |-> "idle"]

\* a commit that loses the row added to the session
db_add_dropped(ms, row) == ms

\* db.session.add(row); db.session.commit() on the messages table ms
db_add(ms, row) == Append(ms, row)

\* ConversationSession.get_context_messages(limit) over the messages table:
\* the session's messages, latest first, cut to limit (None: no cut), and
\* reversed, which leaves the latest messages in the order they were written
get_context_messages(ms, sid, limit) ==
    LET own == SelectSeq(ms, LAMBDA m : m.session_id = sid)
    IN  IF limit = None \/ Len(own) <= limit THEN own
        ELSE SubSeq(own, Len(own) - limit + 1, Len(own))

\* the handler of slot p up to the commit of the user turn
begin_request(p, route, u, raw, model_name) ==
    LET user         == users[u]
        user_message == Strip(raw)
        user_turn(sid) ==
            [id |-> next_message_id(messages), user_id |-> u, session_id |-> sid,
             role |-> "user", content |-> user_message, model |-> model_name,
             created_at |-> now]
    IN  /\ inflight[p].pc # "persisted"
        /\ check_rate_limit(user)
        /\ user_message # <<>>
        /\ ~(model_name \in premium_models
                /\ ~can_use_feature(user, model_name, now))
        /\ req' = Request(route, u, raw, model_name)
        /\ \E got \in get_or_create_session(sessions, u, now, next_id) :
               /\ next_id' = got.next_id
               /\ sessions' = got.sessions
               /\ messages' = db_add(messages, user_turn(got.session.id))
               /\ inflight' = [inflight EXCEPT ![p] =
                      [pc |-> "persisted", route |-> route, user |-> u,
                       raw |-> raw, message |-> user_message,
                       model |-> model_name,
                       session_id |-> got.session.id,
                       turn_id |-> next_message_id(messages),
                       fetched |-> FALSE, context |-> <<>>]]
        /\ UNCHANGED resp

\* the handler of slot p from the context fetch on: the call
\* get_context_messages(limit=None, max_tokens=1500) and what follows it
finish_request(p) ==
    LET r     == inflight[p]
        binds == CallBinds(get_context_messages_params,
                           {"limit", "max_tokens"})
    IN  /\ r.pc = "persisted"
        /\ req' = Request(r.route, r.user, r.raw, r.model)
        /\ after_user_turn(r.route, r.user, r.model, r.session_id,
                           sessions, messages)
        /\ inflight' = [inflight EXCEPT ![p] =
               [r EXCEPT !.pc = "ended",
                         !.fetched = binds,
                         !.context =
                             IF binds
                             THEN get_context_messages(messages,
                                                       r.session_id, None)
                             ELSE <<>>]]
        /\ UNCHANGED next_id

\* POST /chat/send arrives while other requests are in flight
BeginSend ==
    /\ Len(messages) < MaxSends
    /\ \E p \in Slots, u \in SessionUsers, raw \in SessionMessages :
           begin_request(p, "send", u, raw, "auto")
    /\ UNCHANGED <<DEFAULT_MODEL, loaded, classVars, adapterVars, now, users,
                   payVars>>

\* POST /chat/stream arrives while other requests are in flight
BeginStream ==
    /\ Len(messages) < MaxSends
    /\ \E p \in Slots, u \in SessionUsers, raw \in SessionMessages :
           begin_request(p, "stream", u, raw, "auto")
    /\ UNCHANGED <<DEFAULT_MODEL, loaded, classVars, adapterVars, now, users,
                   payVars>>

\* a request in flight goes on from its context fetch
FinishRequest ==
    /\ \E p \in Slots : finish_request(p)
    /\ UNCHANGED <<DEFAULT_MODEL, loaded, classVars, adapterVars, now, users,
                   payVars>>

-----------------------------------------------------------------------------
(* Payments (app/services/payment_service.py, app/blueprints/payments)     *)

\* number of transactions created
MaxTransactions == 1

\* no webhook call yet
NoHook == [pc |-> "none"]

\* duration_days of a payment request: a month or a quarter
Durations == {30, 90}

\* order_id of a notification: the id of the n-th transaction created, or 0,
\* an id no transaction has
OrderIds == 0..MaxTransactions

\* transaction_status of a notification; 'deny' stands for the three
\* statuses of a failed payment, 'refund' for the statuses process_webhook
\* has no branch for
TransactionStatuses == {"capture", "settlement", "deny", "pending", "refund"}

\* fraud_status of a notification (a missing one reads as 'accept')
FraudStatuses == {"accept", "challenge"}

\* create_payment(user, amount, tier, duration_days): the transaction row
create_payment(u, tier, duration_days) ==
    [transaction_id |-> Len(transactions) + 1, user_id |-> u,
     status |-> "pending", tier |-> tier, duration_days |-> duration_days,
     payment_method |-> None]

\* the status process_webhook leaves the transaction with
webhook_status(old, transaction_status, fraud_status) ==
    IF transaction_status = "capture"
    THEN (IF fraud_status = "accept" THEN "success" ELSE old)
    ELSE IF transaction_status = "settlement" THEN "success"
    ELSE IF transaction_status \in {"deny", "cancel", "expire"} THEN "failed"
    ELSE IF transaction_status = "pending" THEN "pending"
    ELSE old

\* process_webhook that upgrades the user unless the payment failed
process_webhook_unless_failed(data) ==
    LET found == { i \in 1..Len(transactions) :
                     transactions[i].transaction_id = data.order_id }
    IN  IF found = {}
        THEN /\ hook' = [pc |-> "done", data |-> data, at |-> now,
                         result |-> "error", upgraded |-> FALSE]
             /\ UNCHANGED <<transactions, users>>
        ELSE LET i      == CHOOSE f \in found : \A g \in found : f <= g
                 t      == transactions[i]
                 status == webhook_status(t.status, data.transaction_status,
                                          data.fraud_status)
             IN  /\ transactions' = [transactions EXCEPT ![i] =
                        [t EXCEPT !.status = status,
                                  !.payment_method = data.payment_type]]
                 /\ IF status # "failed"
                    THEN users' = [users EXCEPT ![t.user_id] =
                             [@ EXCEPT !.tier = t.tier,
                                       !.has_expiry = TRUE,
                                       !.tier_expires_at =
                                           now + t.duration_days * Day]]
                    ELSE UNCHANGED users
                 /\ hook' = [pc |-> "done", data |-> data, at |-> now,
                             result |-> "ok",
                             upgraded |-> (status # "failed")]

\* process_webhook(data): look the transaction up by order_id, update its
\* status and payment method, and when the status is then 'success' set
\* the user's tier and expiry
process_webhook(data) ==
    LET found == { i \in 1..Len(transactions) :
                     transactions[i].transaction_id = data.order_id }
    IN  IF found = {}
        THEN /\ hook' = [pc |-> "done", data |-> data, at |-> now,
                         result |-> "error", upgraded |-> FALSE]
             /\ UNCHANGED <<transactions, users>>
        ELSE LET i      == CHOOSE f \in found : \A g \in found : f <= g
                 t      == transactions[i]
                 status == webhook_status(t.status, data.transaction_status,
                                          data.fraud_status)
             IN  /\ transactions' = [transactions EXCEPT ![i] =
                        [t EXCEPT !.status = status,
                                  !.payment_method = data.payment_type]]
                 /\ IF status = "success"
                    THEN users' = [users EXCEPT ![t.user_id] =
                             [@ EXCEPT !.tier = t.tier,
                                       !.has_expiry = TRUE,
                                       !.tier_expires_at =
                                           now + t.duration_days * Day]]
                    ELSE UNCHANGED users
                 /\ hook' = [pc |-> "done", data |-> data, at |-> now,
                             result |-> "ok",
                             upgraded |-> (status = "success")]

\* POST /payments/create
CreatePayment ==
    /\ Len(transactions) < MaxTransactions
    /\ \E u \in SessionUsers, duration_days \in Durations :
           transactions' = Append(transactions,
                                  create_payment(u, "premium", duration_days))
    /\ UNCHANGED <<DEFAULT_MODEL, loaded, classVars, adapterVars, routeVars,
                   inflight, hook>>

\* POST /payments/webhook
Webhook ==
    /\ \E order_id \in OrderIds, transaction_status \in TransactionStatuses,
          fraud_status \in FraudStatuses :
           \* the fraud status is read only for a capture
           /\ fraud_status # "accept" => transaction_status = "capture"
           /\ process_webhook([order_id |-> order_id,
                               transaction_status |-> transaction_status,
                               fraud_status |-> fraud_status,
                               payment_type |-> "credit_card"])
    /\ UNCHANGED <<DEFAULT_MODEL, loaded, classVars, adapterVars, now,
                   sessions, messages, next_id, req, resp, inflight>>

-----------------------------------------------------------------------------
(* Specifications *)

IdleClass ==
    /\ cpc = "idle"
    /\ prompt = <<>>
    /\ requested_model = None
    /\ app_ctx = FALSE
    /\ content_type = None
    /\ selected = None

IdleAdapter ==
    /\ agen = NoCall
    /\ gmr = NoCall
    /\ models_info = <<>>

IdleRoutes ==
    /\ now = 0
    /\ users = InitUsers
    /\ sessions = {}
    /\ messages = <<>>
    /\ next_id = 1
    /\ req = NoRequest
    /\ resp = NoResponse
    /\ inflight = [p \in Slots |-> NoFlight]
    /\ transactions = <<>>
    /\ hook = NoHook

\* The chat blueprint over an empty store.  The handlers read neither the
\* load status nor DEFAULT_MODEL before they answer, so both are pinned to
\* the values of a deployment without model files and without environment.
Init ==
    /\ DEFAULT_MODEL = "gpt4all"
    /\ loaded = [a \in Adapters |-> FALSE]
    /\ IdleClass
    /\ IdleAdapter
    /\ IdleRoutes

Next == send_message \/ stream_message \/ Tick

Spec == Init /\ [][Next]_vars

\* Conversations: sends, the session routes and the passing of time over
\* the session store
NextSession ==
    \/ send_in_session
    \/ stream_in_session
    \/ create_new_session
    \/ get_current_session
    \/ Tick

SpecSession == Init /\ [][NextSession]_vars

\* The message store under sends, the purges they run, and explicit
\* deletions of sessions
NextStore ==
    \/ send_in_session
    \/ stream_in_session
    \/ delete_session
    \/ Tick

SpecStore == Init /\ [][NextStore]_vars

\* Requests whose steps interleave: each handler commits its user turn in
\* one step and goes on in another
NextInflight == BeginSend \/ BeginStream \/ FinishRequest \/ Tick

SpecInflight == Init /\ [][NextInflight]_vars

\* Payments: transactions are created and notifications arrive, in any
\* order and any number
NextPayment == CreatePayment \/ Webhook \/ Tick

SpecPayment == Init /\ [][NextPayment]_vars

\* The classifier and the router applied to one input
InitClassify ==
    /\ DEFAULT_MODEL \in ConfigDefaults
    /\ loaded = [a \in Adapters |-> FALSE]
    /\ cpc = "input"
    /\ prompt \in Prompts
    /\ requested_model = None
    /\ app_ctx = FALSE
    /\ content_type = None
    /\ selected = None
    /\ IdleAdapter
    /\ IdleRoutes

NextClassify == DetectContentType \/ SelectModelForContent

SpecClassify == InitClassify /\ [][NextClassify]_vars

\* One adapter call, one get_model_response call or one get_available_models
\* call; the generator object a call returns is iterated by its caller;
\* each adapter is loaded or not, as construction left it
InitAdapter ==
    /\ DEFAULT_MODEL \in ConfigDefaults
    /\ loaded \in [Adapters -> BOOLEAN]
    /\ IdleClass
    /\ IdleAdapter
    /\ IdleRoutes

NextAdapter ==
    \/ AdapterGenerate
    \/ AdapterStart
    \/ AdapterResume
    \/ GetModelResponse
    \/ GetModelResponseStart
    \/ GetAvailableModels

SpecAdapter == InitAdapter /\ [][NextAdapter]_vars

-----------------------------------------------------------------------------
(* Properties *)

\* a keyword of kws occurs in p as a substring, in any letter casing
HasKeywordAnyCase(p, kws) ==
    \E k \in kws : \E i \in 1..(Len(p) - Len(k) + 1) :
        Lower(SubSeq(p, i, i + Len(k) - 1)) = k

\* the structural code markers: a fenced block or a language keyword
StructuralMarkers ==
    { <<Backtick, Backtick, Backtick>>,
      <<"d", "e", "f", " ">>,
      <<"c", "l", "a", "s", "s", " ">>,
      <<"f", "u", "n", "c", "t", "i", "o", "n", " ">>,
      <<"i", "m", "p", "o", "r", "t", " ">>,
      <<"c", "o", "n", "s", "t", " ">>,
      <<"v", "a", "r", " ">>,
      <<"l", "e", "t", " ">> }

FallbackWord == <<"f", "a", "l", "l", "b", "a", "c", "k">>

\* the content type the documented priority order assigns to p:
\* code > pdf > image > video > file > structural code markers > general
DocumentedContentType(p) ==
    IF HasKeywordAnyCase(p, coding_keywords) THEN "code"
    ELSE IF HasKeywordAnyCase(p, pdf_keywords) THEN "pdf"
    ELSE IF HasKeywordAnyCase(p, image_keywords) THEN "image"
    ELSE IF HasKeywordAnyCase(p, video_keywords) THEN "video"
    ELSE IF HasKeywordAnyCase(p, file_keywords) THEN "file"
    ELSE IF AnyKeyword(p, StructuralMarkers) THEN "code"
    ELSE "general"

ContentTypes == {"code", "file", "pdf", "image", "video", "general"}

\* C1: a loaded adapter called with stream=True over a backend stream of
\* only empty fragments hands its caller at least one fragment, and the
\* fragments carry the adapter's fallback text, once the caller's iteration
\* has ended.
C1_EmptyStreamYieldsFallback ==
    ( /\ agen.pc = "done"
      /\ agen.stream
      /\ is_loaded(agen.adapter)
      /\ ~agen.raises
      /\ Len(agen.response) > 0
      /\ \A i \in 1..Len(agen.response) : agen.response[i] = <<>> )
    => /\ Len(agen.out) > 0
       /\ Contains(Lower(Flatten(agen.out)), FallbackWord)

\* C2: in blocking mode generate returns a string; when the adapter is not
\* loaded or the backend call raised, that string is the adapter's fallback
\* text, which is not empty.
C2_BlockingReturnsFallbackString ==
    ( /\ agen.pc # "none"
      /\ ~agen.stream
      /\ (~is_loaded(agen.adapter) \/ agen.raises) )
    => /\ agen.kind = "str"
       /\ agen.text = _mock_response(agen.adapter)
       /\ agen.text # <<>>

\* C3: get_model_response in non-streaming mode returns a non-empty string
\* for every prompt and model name, and no exception reaches its caller.
C3_ResponseIsNonEmptyString ==
    (gmr.pc # "none" /\ ~gmr.stream)
    => /\ gmr.pc # "raised"
       /\ gmr.kind = "str"
       /\ gmr.text # <<>>

\* the adapters behind the registry keys that the premium gate lists
PremiumAdapters == { MODELS[k] : k \in premium_models \cap DOMAIN MODELS }

\* C4: a send request of a user who is neither premium nor admin, whose
\* model resolves to a premium-only adapter (named by alias, by primary name
\* or chosen by 'auto'), is refused with the upgrade-required signal and
\* persists no assistant message.
C4_PremiumGateOnResolvedModel ==
    ( /\ req.route \in {"send", "stream"}
      /\ ~req.privileged
      /\ Strip(req.message) # <<>>
      /\ MODELS[final_model_name(Strip(req.message), req.model, TRUE)]
             \in PremiumAdapters )
    => /\ resp.status = 403
       /\ resp.upgrade_required
       /\ \A i \in 1..Len(messages) :
              ~( /\ messages[i].role = "assistant"
                 /\ messages[i].user_id = req.user
                 /\ messages[i].created_at = req.at )

\* C5: a send request that names a model which is neither 'auto' nor a
\* registry key resolves to the configured default model and is answered
\* with HTTP 200.
C5_UnknownModelIsAnswered ==
    ( /\ req.route \in {"send", "stream"}
      /\ req.model # "auto"
      /\ req.model \notin DOMAIN MODELS
      /\ Strip(req.message) # <<>> )
    => /\ final_model_name(Strip(req.message), req.model, TRUE) = DEFAULT_MODEL
       /\ resp.status = 200

\* C6: a requested model that is a registry key (primary or alias) is
\* returned unchanged by select_model_for_content, whatever the prompt
\* classifies as.
C6_ExplicitChoiceWins ==
    ( /\ cpc = "selected"
      /\ requested_model # "auto"
      /\ requested_model \in DOMAIN MODELS )
    => selected = requested_model

\* C6 witness: an alias was requested for a prompt that classifies as code,
\* and the alias came back.
C6_Witness ==
    /\ cpc = "selected"
    /\ requested_model = "llama"
    /\ detect_content_type(prompt) = "code"
    /\ selected = "llama"

\* C7: with no requested model or 'auto', the router returns a key of the
\* coding adapter for code, of the document adapter for pdf and file, of
\* the creative adapter for image and video, and of the configured default
\* general-purpose adapter for general; the result is a registry key.
C7_AutoRoutingTable ==
    (cpc = "selected" /\ requested_model \in {None, "auto"})
    => LET ct == DocumentedContentType(prompt)
       IN  /\ selected \in DOMAIN MODELS
           /\ ct = "code" => MODELS[selected] = "codellama_model"
           /\ ct \in {"pdf", "file"} => MODELS[selected] = "llama3_model"
           /\ ct \in {"image", "video"} => MODELS[selected] = "hermes_model"
           /\ ct = "general" =>
                  \/ selected = DEFAULT_MODEL
                  \/ MODELS[selected] = "mistral_model"

\* C8: a message that contains a coding keyword as a substring, in any
\* letter casing, classifies as 'code', also when it contains keywords of
\* other sets.
C8_CodingKeywordWins ==
    (cpc = "detected" /\ HasKeywordAnyCase(prompt, coding_keywords))
    => content_type = "code"

\* C8 witness: the coding keyword matches only after case folding and the
\* message also holds a PDF keyword.
C8_Witness ==
    /\ cpc = "detected"
    /\ HasKeywordAnyCase(prompt, coding_keywords)
    /\ ~AnyKeyword(prompt, coding_keywords)
    /\ HasKeywordAnyCase(prompt, pdf_keywords)
    /\ content_type = "code"

\* C9: a message without a coding keyword classifies as the first category
\* that matches in the order pdf, image, video, file.
C9_FirstMatchingCategory ==
    (cpc = "detected" /\ ~HasKeywordAnyCase(prompt, coding_keywords))
    => /\ HasKeywordAnyCase(prompt, pdf_keywords) => content_type = "pdf"
       /\ ( /\ ~HasKeywordAnyCase(prompt, pdf_keywords)
            /\ HasKeywordAnyCase(prompt, image_keywords) )
          => content_type = "image"
       /\ ( /\ ~HasKeywordAnyCase(prompt, pdf_keywords)
            /\ ~HasKeywordAnyCase(prompt, image_keywords)
            /\ HasKeywordAnyCase(prompt, video_keywords) )
          => content_type = "video"
       /\ ( /\ ~HasKeywordAnyCase(prompt, pdf_keywords)
            /\ ~HasKeywordAnyCase(prompt, image_keywords)
            /\ ~HasKeywordAnyCase(prompt, video_keywords)
            /\ HasKeywordAnyCase(prompt, file_keywords) )
          => content_type = "file"

\* C10: detect_content_type returns one of the six tags for every message,
\* and 'general' for a message with no keyword of any set and no structural
\* code marker.
C10_TotalWithGeneralDefault ==
    cpc = "detected"
    => /\ content_type \in ContentTypes
       /\ ( /\ \A kws \in {coding_keywords, pdf_keywords, image_keywords,
                           video_keywords, file_keywords} :
                   ~HasKeywordAnyCase(prompt, kws)
            /\ ~AnyKeyword(prompt, StructuralMarkers) )
          => content_type = "general"


\* the backwards-compatibility aliases of the registry: <<alias, primary>>
Aliases ==
    { <<"llama", "llama3">>, <<"gpt4all", "mistral">>,
      <<"deepseek", "codellama">>, <<"vicuna", "hermes">> }

\* C11: the registry holds exactly four distinct adapter instances under
\* eight names; every alias is bound to the instance of its primary name, so
\* both resolve to the same load status and the same fallback text, and the
\* adapter a get_model_response call ends up with is the one registered
\* under the name it resolved.
C11_AliasesShareInstances ==
    /\ DOMAIN MODELS = {"mistral", "codellama", "llama3", "hermes"}
                           \cup { pair[1] : pair \in Aliases }
    /\ { MODELS[k] : k \in DOMAIN MODELS } = Adapters
    /\ Cardinality({ MODELS[k] : k \in DOMAIN MODELS }) = 4
    /\ \A pair \in Aliases :
           /\ MODELS[pair[1]] = MODELS[pair[2]]
           /\ is_loaded(MODELS[pair[1]]) = is_loaded(MODELS[pair[2]])
           /\ _mock_response(MODELS[pair[1]]) = _mock_response(MODELS[pair[2]])
    /\ (gmr.pc = "done" /\ gmr.stream)
           => gmr.retval.adapter = MODELS[gmr.final_model]

\* C11 witness: a call that named the alias 'deepseek' got the generator of
\* the loaded coding adapter while another adapter is not loaded.
C11_Witness ==
    /\ gmr.pc = "done"
    /\ gmr.model_name = "deepseek"
    /\ gmr.retval.adapter = MODELS["codellama"]
    /\ is_loaded(MODELS["codellama"])
    /\ ~is_loaded(MODELS["mistral"])

\* C12: a loaded adapter called with stream=True hands its caller at least
\* as many fragments as the backend stream produced, empty fragments
\* included, once the caller's iteration has ended.
C12_EmptyFragmentsPassedThrough ==
    ( /\ agen.pc = "done"
      /\ agen.stream
      /\ is_loaded(agen.adapter)
      /\ ~agen.raises )
    => Len(agen.out) >= Len(agen.response)

\* m is empty or consists only of whitespace
Blank(m) == \A i \in 1..Len(m) : m[i] \in Whitespace

\* C13: a send or stream request whose message is empty or only whitespace
\* is answered with HTTP 400 and leaves the store as it was: no session is
\* created or purged, no message is persisted, no generation is started.
C13_BlankMessageRejected ==
    [][ (req'.route \in {"send", "stream"} /\ Blank(req'.message))
            => /\ resp'.status = 400
               /\ resp'.kind = "validation"
               /\ UNCHANGED <<sessions, messages, next_id, agen, gmr>> ]_vars

\* C13 witness: a whitespace-only stream request was rejected while the
\* caller owns a session old enough to be purged and a message is stored.
C13_Witness ==
    /\ req.route = "stream"
    /\ req.message = <<" ", " ">>
    /\ req.at = now
    /\ resp.status = 400
    /\ Len(messages) > 0
    /\ \E s \in sessions : s.user_id = req.user /\ now - s.created_at > Day

SessionIds(ss) == { s.id : s \in ss }

C15_ResolvedModelPersisted ==
    ( /\ req.route = "send"
      /\ req.model = "auto"
      /\ ~Blank(req.message) )
    => LET resolved == final_model_name(Strip(req.message), req.model, TRUE)
       IN  /\ resp.status = 200
           /\ resp.model = resolved
           /\ \E i \in 1..Len(messages) :
                  /\ messages[i].role = "assistant"
                  /\ messages[i].user_id = req.user
                  /\ messages[i].created_at = req.at
                  /\ messages[i].model = resolved

\* the turn carries one of the fixed fallback marker substrings
FallbackMarked(turn) ==
    \E pattern \in mock_patterns : Contains(turn.content, pattern)

\* C16: the prompt get_model_response builds contains the content of no
\* history turn that carries a fallback marker, and when every turn of a
\* non-empty history is marked the prompt is the new user message followed
\* by the assistant cue and nothing else.
C16_FallbackTurnsExcluded ==
    gmr.pc \in {"done", "raised"}
    => /\ \A i \in 1..Len(gmr.history) :
              FallbackMarked(gmr.history[i])
                  => ~Contains(gmr.full_prompt, gmr.history[i].content)
       /\ (\A i \in 1..Len(gmr.history) : FallbackMarked(gmr.history[i]))
              => gmr.full_prompt =
                     UserLabel \o gmr.prompt \o Newline \o AssistantCue

\* C16 witness: a history of a genuine turn and a fallback turn produced a
\* prompt that keeps the genuine turn and drops the fallback turn.
C16_Witness ==
    /\ gmr.pc \in {"done", "raised"}
    /\ Len(gmr.history) = 2
    /\ ~FallbackMarked(gmr.history[1])
    /\ FallbackMarked(gmr.history[2])
    /\ Contains(gmr.full_prompt, gmr.history[1].content)
    /\ ~Contains(gmr.full_prompt, gmr.history[2].content)

\* the requests that got past validation and the premium gate
Admitted ==
    /\ req.route \in {"send", "stream"}
    /\ ~Blank(req.message)
    /\ resp.status \notin {400, 403, 429}

\* C17: for an admitted send the context fetch
\* get_context_messages(limit=None, max_tokens=1500) returns, with at most
\* the budgeted number of turns, so that the request goes on to generation
\* instead of ending in an unhandled error.
C17_ContextWithinBudget ==
    Admitted
    => /\ CallBinds(get_context_messages_params, {"limit", "max_tokens"})
       /\ resp.kind # "unhandled"

\* C18: an admitted /chat/stream request is answered with an event stream
\* that starts with the 'processing' event and ends either with exactly one
\* completion event, the assistant message having been persisted once, or
\* with an error event and no assistant message.
C18_StreamEventOrder ==
    (Admitted /\ req.route = "stream")
    => LET n        == Len(resp.events)
           answers  == { i \in 1..Len(messages) :
                           /\ messages[i].role = "assistant"
                           /\ messages[i].user_id = req.user
                           /\ messages[i].created_at = req.at }
       IN  /\ n >= 2
           /\ resp.events[1] = "processing"
           /\ resp.events[n] \in {"done", "error"}
           /\ \A i \in 1..(n - 1) : resp.events[i] \notin {"done", "error"}
           /\ resp.events[n] = "done"
                  => /\ Cardinality(answers) = 1
                     /\ resp.session_id \in SessionIds(sessions)
           /\ resp.events[n] = "error" => answers = {}

\* C19: check_rate_limit allows a free-tier user who has sent no message,
\* and refuses a free-tier user whose messages of the last hour have
\* reached get_rate_limit().
C19_RateLimitEnforced ==
    \A u \in UserIds :
        users[u].tier = "free"
        => /\ (\A i \in 1..Len(messages) : messages[i].user_id # u)
                  => check_rate_limit(users[u])
           /\ message_count(messages, u, now) >= get_rate_limit(users[u], now)
                  => ~check_rate_limit(users[u])

\* the ids of the entries of a models list
ModelIds(info) == { info[i].id : i \in 1..Len(info) }

\* C20 as stated: the list returned by get_available_models has an entry
\* for 'auto' and for every registry key, and the 'loaded' flag of each
\* entry other than 'auto' is is_loaded() of the adapter registered under
\* its id.
C20_EveryRegistryEntryListed ==
    models_info # <<>>
    => /\ "auto" \in ModelIds(models_info)
       /\ DOMAIN MODELS \subseteq ModelIds(models_info)
       /\ \A i \in 1..Len(models_info) :
              models_info[i].id # "auto"
                  => models_info[i].loaded = is_loaded(MODELS[models_info[i].id])

\* C20 amended: the list has exactly five entries, 'auto' and the four
\* alias names deepseek, gpt4all, llama and vicuna, which cover each of the
\* four adapter instances once; the primary names are not listed.  'auto'
\* is reported as loaded and every other entry carries is_loaded() of the
\* adapter registered under its id.
C20_AliasesListedWithLoadStatus ==
    models_info # <<>>
    => /\ Len(models_info) = 5
       /\ ModelIds(models_info) = {"auto"} \cup { pair[1] : pair \in Aliases }
       /\ \A a \in Adapters :
              Cardinality({ i \in 1..Len(models_info) :
                              /\ models_info[i].id \in DOMAIN MODELS
                              /\ MODELS[models_info[i].id] = a }) = 1
       /\ \A i \in 1..Len(models_info) :
              models_info[i].loaded =
                  IF models_info[i].id = "auto" THEN TRUE
                  ELSE is_loaded(MODELS[models_info[i].id])

\* C20 witness: a list was returned while the coding adapter is loaded and
\* the general-purpose adapter is not, and the flags say so.
C20_Witness ==
    /\ models_info # <<>>
    /\ is_loaded("codellama_model")
    /\ ~is_loaded("mistral_model")
    /\ \E i, j \in 1..Len(models_info) :
           /\ models_info[i].id = "deepseek" /\ models_info[i].loaded
           /\ models_info[j].id = "gpt4all" /\ ~models_info[j].loaded

RECURSIVE Split(_)
\* str.split(): the maximal runs of non-whitespace characters, in order
Split(s) ==
    IF s = <<>> THEN <<>>
    ELSE IF Head(s) \in Whitespace THEN Split(Tail(s))
    ELSE LET ends == { j \in 1..Len(s) :
                         /\ \A i \in 1..j : s[i] \notin Whitespace
                         /\ j = Len(s) \/ s[j + 1] \in Whitespace }
             j    == CHOOSE e \in ends : TRUE
         IN  <<SubSeq(s, 1, j)>> \o Split(SubSeq(s, j + 1, Len(s)))

\* the word-by-word breakdown of an adapter's fallback text: every word
\* followed by one blank
FallbackWords(a) ==
    LET words == Split(_mock_response(a))
    IN  [i \in 1..Len(words) |-> words[i] \o <<" ">>]

\* C21: when the backend stream of a loaded Mistral adapter called with
\* stream=True ends without a non-empty fragment, the fragments handed to
\* the caller end with the word-by-word breakdown of the fallback text.
C21_EmptyRunFallsBackWordByWord ==
    ( /\ agen.pc = "done"
      /\ agen.stream
      /\ agen.adapter = "mistral_model"
      /\ is_loaded(agen.adapter)
      /\ ~agen.raises
      /\ \A i \in 1..Len(agen.response) : agen.response[i] = <<>> )
    => \E k \in 0..Len(agen.out) :
           SubSeq(agen.out, k + 1, Len(agen.out)) = FallbackWords(agen.adapter)

\* C22: no step changes an adapter's load status, and a generate call on an
\* adapter that is not loaded hands its caller the adapter's fallback text
\* and nothing else: the string itself in blocking mode, a sequence of the
\* one fallback fragment in streaming mode.
C22_LoadStatusFixedFallbackOnly ==
    [][ /\ loaded' = loaded
        /\ (agen'.pc \in {"suspended", "done"} /\ ~loaded'[agen'.adapter])
               => IF agen'.stream
                  THEN /\ agen'.kind = "generator"
                       /\ agen'.out = <<_mock_response(agen'.adapter)>>
                  ELSE /\ agen'.kind = "str"
                       /\ agen'.text = _mock_response(agen'.adapter) ]_vars

\* C24: in every committed state, a session that holds a message has been
\* touched when that message was appended: its updated_at is not earlier
\* than the created_at of any of its messages, user turns and assistant
\* turns alike.
C24_MessageCommittedWithTouch ==
    \A i \in 1..Len(messages) : \A s \in sessions :
        messages[i].session_id = s.id
            => s.updated_at >= messages[i].created_at

\* C23: when a request fetches its context while another request of the
\* same session is in flight, the fetch returns a context, and that context
\* does not hold the user turn the other request has committed without its
\* assistant turn.
C23_NoPartialExchangeInContext ==
    [][ \A p \in Slots : \A q \in Slots \ {p} :
            ( /\ inflight[p].pc = "persisted"
              /\ inflight'[p].pc = "ended"
              /\ inflight[q].pc = "persisted"
              /\ inflight[q].session_id = inflight[p].session_id )
            => /\ inflight'[p].fetched
               /\ \A k \in 1..Len(inflight'[p].context) :
                      inflight'[p].context[k].id # inflight[q].turn_id
      ]_vars

\* the row of messages ms that is the user turn of the request r
IsUserTurnOf(ms, r) ==
    \E i \in 1..Len(ms) :
        /\ ms[i].id = r.turn_id
        /\ ms[i].role = "user"
        /\ ms[i].user_id = r.user
        /\ ms[i].session_id = r.session_id
        /\ ms[i].content = r.message

RoleName(role) ==
    CASE role = "user"      -> <<"U", "s", "e", "r">>
      [] role = "assistant" -> <<"A", "s", "s", "i", "s", "t", "a", "n", "t">>

\* the turns of a history that go into the prompt: neither blank nor
\* marked as fallback output
IncludedTurns(history) ==
    SelectSeq(history, LAMBDA t : ~Blank(t.content) /\ ~FallbackMarked(t))

C28_NewMessageOnceInPrompt ==
    \A p \in Slots :
        inflight[p].pc = "ended"
        => /\ inflight[p].fetched
           /\ \A k \in 1..Len(inflight[p].context) :
                  inflight[p].context[k].id # inflight[p].turn_id

\* C29: every persisted message that carries a session id refers to a
\* session of the store, whatever sends, purges of expired sessions and
\* explicit deletions came before.
C29_MessagesReferToSessions ==
    \A i \in 1..Len(messages) :
        messages[i].session_id \in SessionIds(sessions)

\* The transaction a notification refers to: the positions in the table
\* whose transaction_id is the notification's order_id
Notified(ts, data) ==
    { i \in 1..Len(ts) : ts[i].transaction_id = data.order_id }

\* C30: process_webhook sets a user's tier and expiry only in a step in
\* which the notified transaction's status is 'success', a status that only
\* a settlement or a capture with fraud status accept gives it; a
\* notification whose order_id matches no transaction returns an error
\* result and changes no transaction and no user; a capture with another
\* fraud status leaves the transaction's status unchanged.
C30_WebhookUpgradesOnlyOnSuccess ==
    [][ /\ users' # users =>
              /\ hook'.pc = "done"
              /\ hook'.upgraded
              /\ \E i \in Notified(transactions', hook'.data) :
                     /\ transactions'[i].status = "success"
                     /\ \A u \in UserIds :
                            users'[u] # users[u] =>
                                /\ u = transactions'[i].user_id
                                /\ users'[u].tier = transactions'[i].tier
                                /\ users'[u].has_expiry
                                /\ users'[u].tier_expires_at =
                                       now + transactions'[i].duration_days
                                             * Day
        /\ \A i \in 1..Len(transactions) :
              (transactions'[i].status = "success"
               /\ transactions[i].status # "success") =>
                  /\ hook'.data.order_id = transactions[i].transaction_id
                  /\ \/ hook'.data.transaction_status = "settlement"
                     \/ /\ hook'.data.transaction_status = "capture"
                        /\ hook'.data.fraud_status = "accept"
        /\ (hook' # hook /\ Notified(transactions, hook'.data) = {}) =>
              /\ hook'.result = "error"
              /\ ~hook'.upgraded
              /\ UNCHANGED <<transactions, users>>
        /\ (hook' # hook /\ hook'.data.transaction_status = "capture"
            /\ hook'.data.fraud_status # "accept") =>
              \A i \in Notified(transactions, hook'.data) :
                  transactions'[i].status = transactions[i].status
      ]_vars

\* a capture with fraud status accept has made the free user 1 premium
C30_Witness ==
    /\ hook.pc = "done"
    /\ hook.upgraded
    /\ hook.data.transaction_status = "capture"
    /\ hook.data.fraud_status = "accept"
    /\ \E i \in Notified(transactions, hook.data) :
           /\ transactions[i].status = "success"
           /\ transactions[i].user_id = 1
    /\ users[1].tier = "premium"
    /\ users[1].has_expiry

=============================================================================
